---- MODULE Spec2Model ----
(***************************************************************************)
(* Model of src/app.py: the identifier normalizer clean_nmi and the        *)
(* record-matching engine process_dataframes (billing index build, target  *)
(* population), with the static BILLING_CONFIG registry.                   *)
(*                                                                         *)
(* Text is a sequence of one-character strings.  A cell value is a record  *)
(* [t, n, s]: t = "na" (None/NaN), "str" (text s), "int" (integer n) or    *)
(* "float" (the integer-valued float n, printed by str() as "<n>.0").      *)
(* A table is [columns, rows]: rows is a sequence (positional index        *)
(* 1..n, the RangeIndex a loaded file has) of functions columns -> cell.   *)
(***************************************************************************)
EXTENDS Integers, Sequences, FiniteSets, TLC

VARIABLES
    pc,             \* position in process_dataframes
    billing_type,   \* argument billing_type
    df_billing,     \* argument df_billing
    df_target,      \* argument df_target, mutated in place
    billing_lookup, \* local billing_lookup (dict: normalized NMI -> nmi_data)
    bi,             \* number of billing rows the build loop has consumed
    ti,             \* number of target rows the update loop has consumed
    matches_found,  \* local matches_found
    ret,            \* what the call produced: [kind, df, count, err]
    in_billing,     \* history: df_billing as passed in
    in_target,      \* history: df_target as passed in
    written,        \* history: the cells <<index, column>> assigned through .at
    counted,        \* history: per target row, the increments of matches_found
    cval,           \* normalizer run: the value handed to clean_nmi
    cres1,          \* normalizer run: clean_nmi(cval)
    cres2,          \* normalizer run: clean_nmi(cres1)
    cpc             \* normalizer run: position

vars == <<pc, billing_type, df_billing, df_target, billing_lookup, bi, ti,
          matches_found, ret, in_billing, in_target, written, counted,
          cval, cres1, cres2, cpc>>

procVars == <<pc, billing_type, df_billing, df_target, billing_lookup, bi, ti,
              matches_found, ret, in_billing, in_target, written, counted>>

cleanVars == <<cval, cres1, cres2, cpc>>

-----------------------------------------------------------------------------
(* Bounds *)

MaxBillingRows == 2

MaxTargetRows == 2

MaxLen == 4

-----------------------------------------------------------------------------
(* Cell values *)

NaV == [t |-> "na", n |-> 0, s |-> <<>>]

StrV(s) == [t |-> "str", n |-> 0, s |-> s]

IntV(n) == [t |-> "int", n |-> n, s |-> <<>>]

FloatV(n) == [t |-> "float", n |-> n, s |-> <<>>]

\* pd.isna / pd.notna on a scalar
isna(val) == val.t = "na"

notna(val) == ~isna(val)

DigitChars == <<"0", "1", "2", "3", "4", "5", "6", "7", "8", "9">>

RECURSIVE Digits(_)
Digits(n) == IF n < 10 THEN <<DigitChars[n + 1]>>
             ELSE Digits(n \div 10) \o <<DigitChars[(n % 10) + 1]>>

\* str(val) for a value that is not NA
PyStr(val) ==
    CASE val.t = "str" -> val.s
      [] val.t = "int" -> Digits(val.n)
      [] val.t = "float" -> Digits(val.n) \o <<".", "0">>

\* The characters str.strip() removes (those str.isspace() accepts): space,
\* tab, line feed, carriage return, form feed, then, written as the characters
\* themselves, U+000B (vertical tab), U+001C to U+001F (file, group, record
\* and unit separator), U+0085 (next line), U+00A0 (no-break space) and
\* U+1680 (ogham space mark).  The remaining ones (U+2000 to U+200A, U+2028,
\* U+2029, U+202F, U+205F, U+3000) cannot be written in a string of this
\* language; text holding them is outside the alphabet of the model.
Whitespace ==
    {" ", "\t", "\n", "\r", "\f",
     "", "", "", "", "", "", " ", " "}

RECURSIVE LStrip(_)
LStrip(s) == IF s # <<>> /\ Head(s) \in Whitespace THEN LStrip(Tail(s)) ELSE s

RECURSIVE RStrip(_)
RStrip(s) == IF s # <<>> /\ s[Len(s)] \in Whitespace
             THEN RStrip(SubSeq(s, 1, Len(s) - 1)) ELSE s

\* str.strip()
Strip(s) == RStrip(LStrip(s))

\* str.endswith(suf)
EndsWith(s, suf) ==
    Len(s) >= Len(suf) /\ SubSeq(s, Len(s) - Len(suf) + 1, Len(s)) = suf

\* A plausible slip: the '.0' test made before the trim (the order of spec 4.1).
clean_nmi_suffix_first(val) ==
    IF isna(val) THEN <<>>
    ELSE LET s == PyStr(val)
         IN  Strip(IF EndsWith(s, <<".", "0">>) THEN SubSeq(s, 1, Len(s) - 2) ELSE s)

clean_nmi(val) ==
    IF isna(val) THEN <<>>
    ELSE LET s == Strip(PyStr(val))
         IN  IF EndsWith(s, <<".", "0">>) THEN SubSeq(s, 1, Len(s) - 2) ELSE s

-----------------------------------------------------------------------------
(* Configuration *)

BILLING_CONFIG ==
    ("Quarterly Billing" :>
        [header_row |-> 1, col_nmi |-> "NMI",
         suffixes |-> ("P" :> [start |-> "PEAK_KWH", end |-> "PEAK_KWH.1"]
                    @@ "A" :> [qty |-> "Availability charge Quantity"])])
    @@
    ("Power Smart Billing" :>
        [header_row |-> 1, col_nmi |-> "NMI",
         suffixes |-> ("P" :> [start |-> "Peak kWh reading", end |-> "Peak kWh reading.1"]
                    @@ "S" :> [start |-> "Shoulder kWh reading", end |-> "Shoulder kWh reading.1"]
                    @@ "O" :> [start |-> "Off peak kWh reading", end |-> "Off peak kWh reading.1"]
                    @@ "A" :> [qty |-> "Availability"])])
    @@
    ("Load Smart Billing" :>
        [header_row |-> 1, col_nmi |-> "NMI",
         suffixes |-> ("P" :> [start |-> "Peak kWh reading", end |-> "Peak kWh reading.1"]
                    @@ "S" :> [start |-> "Shoulder kWh reading", end |-> "Shoulder kWh reading.1"]
                    @@ "O" :> [start |-> "Off peak kWh reading", end |-> "Off peak kWh reading.1"]
                    @@ "D" :> [qty |-> "DEMAND"]
                    @@ "A" :> [qty |-> "Availability"])])


-----------------------------------------------------------------------------
(* Tables *)

\* Series.get(col): None when the row has no such column
Get(row, col) == IF col \in DOMAIN row THEN row[col] ELSE NaV

\* df[col] = None for a column the frame does not have
AddColumn(df, col) ==
    [columns |-> df.columns \cup {col},
     rows |-> [i \in 1..Len(df.rows) |->
                 [c \in df.columns \cup {col} |->
                     IF c = col THEN NaV ELSE df.rows[i][c]]]]

\* A plausible slip: the output columns are (re)created unconditionally.
EnsureOutputColumnsAlways(df) ==
    AddColumn(AddColumn(df, "Reading From"), "Reading To")

\* lines 87-88
EnsureOutputColumns(df) ==
    LET d1 == IF "Reading From" \notin df.columns
              THEN AddColumn(df, "Reading From") ELSE df
    IN  IF "Reading To" \notin d1.columns THEN AddColumn(d1, "Reading To") ELSE d1

\* A plausible slip: the assignment addresses the row (df.loc[index] = val),
\* not the cell.
AtWholeRow(df, index, col, val) ==
    [df EXCEPT !.rows[index] = [c \in DOMAIN @ |-> val]]

\* df.at[index, col] = val
At(df, index, col, val) == [df EXCEPT !.rows[index][col] = val]

\* d[k] = v on a dict
DictSet(d, k, v) == [x \in DOMAIN d \cup {k} |-> IF x = k THEN v ELSE d[x]]

EmptyDict == [x \in {} |-> NaV]

-----------------------------------------------------------------------------
(* Build Lookup *)

\* lines 71-81: the per-suffix data of one billing row
BuildNmiData(suffixes_config, row) ==
    [suffix \in {x \in DOMAIN suffixes_config :
                    \/ "start" \in DOMAIN suffixes_config[x]
                    \/ "qty" \in DOMAIN suffixes_config[x]} |->
        LET mapping == suffixes_config[suffix]
        IN  IF "start" \in DOMAIN mapping
            THEN [start |-> Get(row, mapping.start), end |-> Get(row, mapping.end)]
            ELSE [qty |-> Get(row, mapping.qty)]]

\* A plausible slip: an identifier already indexed keeps its first row.
LookupAfterRowFirstWins(lookup, config, row) ==
    LET nmi_clean == clean_nmi(Get(row, config.col_nmi))
    IN  IF nmi_clean = <<>> \/ nmi_clean \in DOMAIN lookup THEN lookup
        ELSE DictSet(lookup, nmi_clean, BuildNmiData(config.suffixes, row))

\* A plausible slip: the empty-identifier test is missing.
LookupAfterRowNoSkip(lookup, config, row) ==
    DictSet(lookup, clean_nmi(Get(row, config.col_nmi)),
            BuildNmiData(config.suffixes, row))

\* lines 67-82: one iteration of the billing loop
LookupAfterRow(lookup, config, row) ==
    LET nmi_clean == clean_nmi(Get(row, config.col_nmi))
    IN  IF nmi_clean = <<>> THEN lookup
        ELSE DictSet(lookup, nmi_clean, BuildNmiData(config.suffixes, row))

-----------------------------------------------------------------------------
(* Update Target *)

NoUpdate(df) == [df |-> df, inc |-> 0, writes |-> {}]

\* A plausible slip: the pd.notna test on the quantity is missing.
QtyUpdateNoCheck(df, index, data) ==
    [df |-> At(At(df, index, "Reading From", IntV(0)), index, "Reading To", data.qty),
     inc |-> 1,
     writes |-> {<<index, "Reading From">>, <<index, "Reading To">>}]

\* lines 105-110
QtyUpdate(df, index, data) ==
    LET val == data.qty
    IN  IF notna(val)
        THEN [df |-> At(At(df, index, "Reading From", IntV(0)), index, "Reading To", val),
              inc |-> 1,
              writes |-> {<<index, "Reading From">>, <<index, "Reading To">>}]
        ELSE NoUpdate(df)

\* A plausible slip (an earlier version of the code): each present bound
\* increments the count on its own.
ReadingUpdateCountsEach(df, index, data) ==
    LET s_val == data.start
        e_val == data.end
        d1 == IF notna(s_val) THEN At(df, index, "Reading From", s_val) ELSE df
        d2 == IF notna(e_val) THEN At(d1, index, "Reading To", e_val) ELSE d1
    IN  [df |-> d2,
         inc |-> (IF notna(s_val) THEN 1 ELSE 0) + (IF notna(e_val) THEN 1 ELSE 0),
         writes |-> (IF notna(s_val) THEN {<<index, "Reading From">>} ELSE {})
                    \cup (IF notna(e_val) THEN {<<index, "Reading To">>} ELSE {})]

\* A plausible slip: both fields are assigned whenever one bound is present,
\* so an absent bound clears the field.
ReadingUpdateClears(df, index, data) ==
    LET s_val == data.start
        e_val == data.end
    IN  IF notna(s_val) \/ notna(e_val)
        THEN [df |-> At(At(df, index, "Reading From", s_val), index, "Reading To", e_val),
              inc |-> 1,
              writes |-> {<<index, "Reading From">>, <<index, "Reading To">>}]
        ELSE NoUpdate(df)

\* lines 113-124
ReadingUpdate(df, index, data) ==
    LET s_val == data.start
        e_val == data.end
        d1 == IF notna(s_val) THEN At(df, index, "Reading From", s_val) ELSE df
        d2 == IF notna(e_val) THEN At(d1, index, "Reading To", e_val) ELSE d1
        updated == notna(s_val) \/ notna(e_val)
    IN  [df |-> d2,
         inc |-> IF updated THEN 1 ELSE 0,
         writes |-> (IF notna(s_val) THEN {<<index, "Reading From">>} ELSE {})
                    \cup (IF notna(e_val) THEN {<<index, "Reading To">>} ELSE {})]

\* lines 102-124: the write for a row whose base and suffix hit `data`
DataUpdate(df, index, data) ==
    IF "qty" \in DOMAIN data THEN QtyUpdate(df, index, data)
    ELSE IF "start" \in DOMAIN data THEN ReadingUpdate(df, index, data)
    ELSE NoUpdate(df)

\* lines 91-124: one iteration of the target loop.  `row` is the copy of the
\* row that iterrows() hands out; the writes go to the frame.
RowUpdate(df, lookup, index) ==
    LET row == df.rows[index]
        meter_clean == clean_nmi(Get(row, "Meter No."))
    IN  IF Len(meter_clean) < 2 THEN NoUpdate(df)
        ELSE LET suffix == meter_clean[Len(meter_clean)]
                 nmi_base == SubSeq(meter_clean, 1, Len(meter_clean) - 1)
             IN  IF nmi_base \in DOMAIN lookup
                 THEN LET nmi_data == lookup[nmi_base]
                      IN  IF suffix \in DOMAIN nmi_data
                          THEN DataUpdate(df, index, nmi_data[suffix])
                          ELSE NoUpdate(df)
                 ELSE NoUpdate(df)


-----------------------------------------------------------------------------
(* Inputs of a call *)

\* A name that is not registered, beside the registered ones.
BillingTypes == DOMAIN BILLING_CONFIG \cup {"Annual Billing"}

\* The columns a billing file of format `name` carries.
FormatColumns(name) ==
    LET config == BILLING_CONFIG[name]
    IN  {config.col_nmi}
        \cup UNION {{config.suffixes[x][k] : k \in DOMAIN config.suffixes[x]} :
                      x \in DOMAIN config.suffixes}

ReadingColumns ==
    <<"PEAK_KWH", "PEAK_KWH.1", "Availability charge Quantity",
      "Peak kWh reading", "Peak kWh reading.1",
      "Shoulder kWh reading", "Shoulder kWh reading.1",
      "Off peak kWh reading", "Off peak kWh reading.1",
      "DEMAND", "Availability">>

\* Whether column c is a start, an end or a qty column of some format.
ColumnKind(c) ==
    CHOOSE k \in {"start", "end", "qty"} :
        \E name \in DOMAIN BILLING_CONFIG :
            \E x \in DOMAIN BILLING_CONFIG[name].suffixes :
                LET mapping == BILLING_CONFIG[name].suffixes[x]
                IN  k \in DOMAIN mapping /\ mapping[k] = c

\* The reading in row i, column c, when present: distinct per row and column
\* (row 1 of PEAK_KWH reads 0, a present value).
CellCode(i, c) ==
    20 * (i - 1) + (CHOOSE j \in 1..Len(ReadingColumns) : ReadingColumns[j] = c) - 1

AllKinds == {"start", "end", "qty"}

\* Identifier numbers billing files carry, and one they never carry.
BillingNmis == {12}

UnknownNmis == {34}

\* A billing row is drawn as <<NMI cell, kinds of reading present>>: every
\* presence pattern of start/end (the quantity present in two of them, absent
\* in two) under the float-typed identifier, the text-typed identifier
\* ('12.0' and a line feed) with everything present, and the identifiers that
\* normalize to "" (absent; a space and a tab) with everything present.
BillingRowParams ==
    {<<FloatV(n), m>> : n \in BillingNmis, m \in {AllKinds, {"start", "qty"}, {"end"}, {}}}
    \cup {<<StrV(Digits(n) \o <<".", "0", "\n">>), AllKinds>> : n \in BillingNmis}
    \cup {<<NaV, AllKinds>>, <<StrV(<<" ", "\t">>), AllKinds>>}

\* The rows of the files that lack a column, and of the calls with an
\* unregistered format name.
PlainRowParams ==
    {<<FloatV(n), AllKinds>> : n \in BillingNmis} \cup {<<NaV, AllKinds>>}

MkBillingRow(columns, i, p) ==
    [c \in columns |->
        IF c = "NMI" THEN p[1]
        ELSE IF ColumnKind(c) \in p[2] THEN IntV(CellCode(i, c)) ELSE NaV]

MkBillingTable(columns, ps) ==
    [columns |-> columns,
     rows |-> [i \in 1..Len(ps) |-> MkBillingRow(columns, i, ps[i])]]

\* Column layouts of a billing file of a format: complete, without the
\* identifier column, without the quantity columns.
BillingLayouts(name) ==
    LET full == FormatColumns(name)
    IN  {full, full \ {"NMI"}, {c \in full : c = "NMI" \/ ColumnKind(c) # "qty"}}

\* The formats whose complete files are drawn with every kind of row; the
\* Power Smart format (Load Smart without its demand quantity) is drawn with
\* the plain rows only.
FullyVaried == {"Quarterly Billing", "Load Smart Billing"}

BillingTables(name) ==
    UNION {{MkBillingTable(columns, ps) :
                ps \in UNION {[1..n -> IF columns = FormatColumns(name) /\ name \in FullyVaried
                                       THEN BillingRowParams
                                       ELSE PlainRowParams] :
                              n \in 0..MaxBillingRows}} :
           columns \in BillingLayouts(name)}

\* The files tried with a format name that is not registered.
UnregisteredTables ==
    {MkBillingTable(FormatColumns("Quarterly Billing"), ps) :
        ps \in UNION {[1..n -> PlainRowParams] : n \in 0..MaxBillingRows}}

TargetSuffixes == {"P", "A", "D"}

\* 'Meter No.' cells: one character, a billed identifier with each suffix
\* (the A cell with a leading tab and a trailing CR LF around it), an
\* identifier that is not billed.
TargetMeters ==
    {StrV(<<"P">>)}
    \cup {StrV(IF x = "A" THEN <<"\t">> \o Digits(n) \o <<x, "\r", "\n">>
                ELSE Digits(n) \o <<x>>) : n \in BillingNmis, x \in TargetSuffixes}
    \cup {StrV(Digits(n) \o <<"P">>) : n \in UnknownNmis}

\* Target layouts: `meter` whether 'Meter No.' exists, `outputs` which of the
\* output columns exist already (then holding values).
TargetLayouts ==
    {[meter |-> TRUE, outputs |-> {}],
     [meter |-> TRUE, outputs |-> {"Reading From", "Reading To"}],
     [meter |-> FALSE, outputs |-> {}],
     [meter |-> FALSE, outputs |-> {"Reading From", "Reading To"}]}

MkTargetRow(layout, i, m) ==
    [c \in {"Description"} \cup layout.outputs
           \cup (IF layout.meter THEN {"Meter No."} ELSE {}) |->
        CASE c = "Meter No." -> m
          [] c = "Description" -> IntV(200 + i)
          [] c = "Reading From" -> IntV(100 + 2 * i)
          [] c = "Reading To" -> IntV(101 + 2 * i)]

MkTargetTable(layout, ms) ==
    [columns |-> {"Description"} \cup layout.outputs
                 \cup (IF layout.meter THEN {"Meter No."} ELSE {}),
     rows |-> [i \in 1..Len(ms) |-> MkTargetRow(layout, i, ms[i])]]

TargetTables ==
    UNION {{MkTargetTable(layout, ms) :
                ms \in UNION {[1..n -> IF layout.meter THEN TargetMeters
                                       ELSE {NaV}] : n \in 0..MaxTargetRows}} :
           layout \in TargetLayouts}

NoTable == [columns |-> {}, rows |-> <<>>]

NoRet == [kind |-> "none", df |-> "None", count |-> 0, err |-> "None"]

-----------------------------------------------------------------------------
(* process_dataframes *)

\* The call: process_dataframes(df_billing, df_target, billing_type)
InitProc ==
    /\ billing_type \in BillingTypes
    /\ df_billing \in IF billing_type \in DOMAIN BILLING_CONFIG
                      THEN BillingTables(billing_type) ELSE UnregisteredTables
    /\ df_target \in TargetTables
    /\ in_billing = df_billing
    /\ in_target = df_target
    /\ pc = "start"
    /\ billing_lookup = EmptyDict
    /\ bi = 0
    /\ ti = 0
    /\ matches_found = 0
    /\ ret = NoRet
    /\ written = {}
    /\ counted = [i \in 1..Len(df_target.rows) |-> 0]

IdleClean ==
    /\ cval = NaV
    /\ cres1 = <<>>
    /\ cres2 = <<>>
    /\ cpc = "idle"

Init == InitProc /\ IdleClean

\* line 52: BILLING_CONFIG[billing_type] raises KeyError
RaiseKeyError ==
    /\ pc = "start"
    /\ billing_type \notin DOMAIN BILLING_CONFIG
    /\ pc' = "raised"
    /\ ret' = [kind |-> "raised", df |-> "None", count |-> 0, err |-> "KeyError"]
    /\ UNCHANGED <<billing_type, df_billing, df_target, billing_lookup, bi, ti,
                   matches_found, in_billing, in_target, written, counted>>
    /\ UNCHANGED cleanVars

\* lines 55-56
ReturnMissingNmi ==
    /\ pc = "start"
    /\ billing_type \in DOMAIN BILLING_CONFIG
    /\ BILLING_CONFIG[billing_type].col_nmi \notin df_billing.columns
    /\ pc' = "returned"
    /\ ret' = [kind |-> "returned", df |-> "None", count |-> 0,
               err |-> "Missing 'NMI' column in billing data."]
    /\ UNCHANGED <<billing_type, df_billing, df_target, billing_lookup, bi, ti,
                   matches_found, in_billing, in_target, written, counted>>
    /\ UNCHANGED cleanVars

\* A plausible slip: the output columns are created before the target check.
ReturnMissingMeterAfterEnsure ==
    /\ pc = "start"
    /\ billing_type \in DOMAIN BILLING_CONFIG
    /\ BILLING_CONFIG[billing_type].col_nmi \in df_billing.columns
    /\ "Meter No." \notin df_target.columns
    /\ pc' = "returned"
    /\ df_target' = EnsureOutputColumns(df_target)
    /\ ret' = [kind |-> "returned", df |-> "None", count |-> 0,
               err |-> "Target data must have 'Meter No.' column."]
    /\ UNCHANGED <<billing_type, df_billing, billing_lookup, bi, ti,
                   matches_found, in_billing, in_target, written, counted>>
    /\ UNCHANGED cleanVars

\* lines 59-60
ReturnMissingMeter ==
    /\ pc = "start"
    /\ billing_type \in DOMAIN BILLING_CONFIG
    /\ BILLING_CONFIG[billing_type].col_nmi \in df_billing.columns
    /\ "Meter No." \notin df_target.columns
    /\ pc' = "returned"
    /\ ret' = [kind |-> "returned", df |-> "None", count |-> 0,
               err |-> "Target data must have 'Meter No.' column."]
    /\ UNCHANGED <<billing_type, df_billing, df_target, billing_lookup, bi, ti,
                   matches_found, in_billing, in_target, written, counted>>
    /\ UNCHANGED cleanVars

\* lines 52-64 when every check passes: the empty lookup, the loop begins
StartBuild ==
    /\ pc = "start"
    /\ billing_type \in DOMAIN BILLING_CONFIG
    /\ BILLING_CONFIG[billing_type].col_nmi \in df_billing.columns
    /\ "Meter No." \in df_target.columns
    /\ pc' = "build"
    /\ billing_lookup' = EmptyDict
    /\ bi' = 0
    /\ UNCHANGED <<billing_type, df_billing, df_target, ti, matches_found, ret,
                   in_billing, in_target, written, counted>>
    /\ UNCHANGED cleanVars

\* lines 66-82: one billing row
BuildRow ==
    /\ pc = "build"
    /\ bi < Len(df_billing.rows)
    /\ bi' = bi + 1
    /\ billing_lookup' = LookupAfterRow(billing_lookup, BILLING_CONFIG[billing_type],
                                        df_billing.rows[bi + 1])
    /\ UNCHANGED <<pc, billing_type, df_billing, df_target, ti, matches_found, ret,
                   in_billing, in_target, written, counted>>
    /\ UNCHANGED cleanVars

\* lines 85-88, once the billing loop is exhausted
EnsureColumns ==
    /\ pc = "build"
    /\ bi = Len(df_billing.rows)
    /\ matches_found' = 0
    /\ df_target' = EnsureOutputColumns(df_target)
    /\ ti' = 0
    /\ pc' = "update"
    /\ UNCHANGED <<billing_type, df_billing, billing_lookup, bi, ret,
                   in_billing, in_target, written, counted>>
    /\ UNCHANGED cleanVars

\* lines 90-124: one target row
UpdateRow ==
    /\ pc = "update"
    /\ ti < Len(df_target.rows)
    /\ LET u == RowUpdate(df_target, billing_lookup, ti + 1)
       IN  /\ df_target' = u.df
           /\ matches_found' = matches_found + u.inc
           /\ written' = written \cup u.writes
           /\ counted' = [counted EXCEPT ![ti + 1] = @ + u.inc]
    /\ ti' = ti + 1
    /\ UNCHANGED <<pc, billing_type, df_billing, billing_lookup, bi, ret,
                   in_billing, in_target>>
    /\ UNCHANGED cleanVars

\* line 126
ReturnResult ==
    /\ pc = "update"
    /\ ti = Len(df_target.rows)
    /\ pc' = "returned"
    /\ ret' = [kind |-> "returned", df |-> "df_target", count |-> matches_found,
               err |-> "None"]
    /\ UNCHANGED <<billing_type, df_billing, df_target, billing_lookup, bi, ti,
                   matches_found, in_billing, in_target, written, counted>>
    /\ UNCHANGED cleanVars

Next ==
    \/ RaiseKeyError
    \/ ReturnMissingNmi
    \/ ReturnMissingMeter
    \/ StartBuild
    \/ BuildRow
    \/ EnsureColumns
    \/ UpdateRow
    \/ ReturnResult

Spec == Init /\ [][Next]_vars

-----------------------------------------------------------------------------
(* clean_nmi on its own: applied once, then to its own result *)

CleanAlphabet == {"1", ".", "0", " ", "\t"}

ScenarioNumbers == {0, 12, 1234567890}

CleanInputs ==
    {NaV}
    \cup {StrV(s) : s \in UNION {[1..n -> CleanAlphabet] : n \in 0..MaxLen}}
    \cup {FloatV(n) : n \in ScenarioNumbers}
    \cup {IntV(n) : n \in ScenarioNumbers}
    \cup {StrV(Digits(n)) : n \in ScenarioNumbers}
    \cup {StrV(Digits(n) \o <<".", "0">>) : n \in ScenarioNumbers}
    \cup {StrV(Digits(n) \o <<"P">>) : n \in ScenarioNumbers}

IdleProc ==
    /\ pc = "idle"
    /\ billing_type = "Quarterly Billing"
    /\ df_billing = NoTable
    /\ df_target = NoTable
    /\ in_billing = NoTable
    /\ in_target = NoTable
    /\ billing_lookup = EmptyDict
    /\ bi = 0
    /\ ti = 0
    /\ matches_found = 0
    /\ ret = NoRet
    /\ written = {}
    /\ counted = <<>>

InitClean ==
    /\ IdleProc
    /\ cval \in CleanInputs
    /\ cres1 = <<>>
    /\ cres2 = <<>>
    /\ cpc = "start"

\* clean_nmi(val)
CleanOnce ==
    /\ cpc = "start"
    /\ cres1' = clean_nmi(cval)
    /\ cpc' = "once"
    /\ UNCHANGED <<cval, cres2>>
    /\ UNCHANGED procVars

\* clean_nmi(clean_nmi(val)): the result is text
CleanTwice ==
    /\ cpc = "once"
    /\ cres2' = clean_nmi(StrV(cres1))
    /\ cpc' = "twice"
    /\ UNCHANGED <<cval, cres1>>
    /\ UNCHANGED procVars

NextClean ==
    \/ CleanOnce
    \/ CleanTwice

SpecClean == InitClean /\ [][NextClean]_vars


-----------------------------------------------------------------------------
(* Vocabulary of the properties *)

Registered == billing_type \in DOMAIN BILLING_CONFIG

\* The call is one of the three that must fail.
ErrorInput ==
    \/ ~Registered
    \/ BILLING_CONFIG[billing_type].col_nmi \notin in_billing.columns
    \/ "Meter No." \notin in_target.columns

Succeeded == pc = "returned" /\ ret.err = "None"

\* The target rows the update loop has gone through.
Processed ==
    IF pc = "update" THEN 1..ti
    ELSE IF Succeeded THEN 1..Len(in_target.rows)
    ELSE {}

\* The value a target cell had when the table was passed in (absent when the
\* column did not exist).
Orig(i, c) == Get(in_target.rows[i], c)

Cell(i, c) == df_target.rows[i][c]

MeterText(i) == clean_nmi(Get(in_target.rows[i], "Meter No."))

BaseOf(i) == LET m == MeterText(i) IN SubSeq(m, 1, Len(m) - 1)

SuffixOf(i) == LET m == MeterText(i) IN m[Len(m)]

\* Row i's base and suffix hit an entry of the index.
Hit(i) ==
    LET m == MeterText(i)
        base == SubSeq(m, 1, Len(m) - 1)
    IN  /\ Len(m) >= 2
        /\ base \in DOMAIN billing_lookup
        /\ m[Len(m)] \in DOMAIN billing_lookup[base]

HitData(i) ==
    LET m == MeterText(i)
    IN  billing_lookup[SubSeq(m, 1, Len(m) - 1)][m[Len(m)]]

RowWritten(i) == \E c \in {"Reading From", "Reading To"} : <<i, c>> \in written

Untouched(i) ==
    /\ ~RowWritten(i)
    /\ counted[i] = 0
    /\ Cell(i, "Reading From") = Orig(i, "Reading From")
    /\ Cell(i, "Reading To") = Orig(i, "Reading To")

NmiText(j) == clean_nmi(Get(in_billing.rows[j], BILLING_CONFIG[billing_type].col_nmi))

\* The billing rows that normalize to identifier k, and the last of them.
RowsFor(k) == {j \in 1..Len(in_billing.rows) : NmiText(j) = k}

LastRowFor(k) ==
    LET js == RowsFor(k)
    IN  in_billing.rows[CHOOSE j \in js : \A j2 \in js : j2 <= j]

\* What a billing row holds under a configured column name (absent when the
\* table has no such column).
Held(row, c) == IF c \in in_billing.columns THEN row[c] ELSE NaV

-----------------------------------------------------------------------------
(* Properties of process_dataframes *)

\* C1: a call with an unregistered format name, a billing table without the
\* format's identifier column, or a target table without 'Meter No.' never
\* reaches the loops; the target table stays exactly as passed in, no cell is
\* written, no output column is created, and no match is counted.
C1_FailsBeforeMutation ==
    ErrorInput =>
        /\ pc \in {"start", "raised", "returned"}
        /\ df_target = in_target
        /\ written = {}
        /\ matches_found = 0
        /\ ret.count = 0
        /\ (pc # "start" => ret.err # "None" /\ ret.df = "None")

\* A target table of two rows without 'Meter No.' and without the output
\* columns was refused.
C1_Witness ==
    /\ pc = "returned"
    /\ ret.err = "Target data must have 'Meter No.' column."
    /\ in_target.columns = {"Description"}
    /\ Len(in_target.rows) = 2
    /\ Len(in_billing.rows) = 2

\* C2: the match count is the number of target rows for which at least one of
\* 'Reading From' / 'Reading To' was written, and no row counts more than once.
C2_CountIsRowsWritten ==
    (pc = "update" \/ Succeeded) =>
        /\ matches_found = Cardinality({i \in 1..Len(in_target.rows) : RowWritten(i)})
        /\ \A i \in 1..Len(in_target.rows) :
              counted[i] = IF RowWritten(i) THEN 1 ELSE 0
        /\ (Succeeded => ret.count = matches_found)

\* Two rows counted, one with both fields written and one with a single field.
C2_Witness ==
    /\ Succeeded
    /\ ret.count = 2
    /\ Cardinality(written) = 3

\* C3: a processed row that hits a Quantity entry gets Reading From = 0 and
\* Reading To = the quantity and is counted once when the quantity is present;
\* when it is absent (absent cell, or no such column in the billing table) the
\* row is not written and not counted.  The entry carries what the last billing
\* row of that identifier holds in the configured quantity column.
C3_QuantityRows ==
    \A i \in Processed :
        Hit(i) =>
            LET data == HitData(i)
            IN  "qty" \in DOMAIN data =>
                    /\ data.qty =
                          Held(LastRowFor(BaseOf(i)),
                               BILLING_CONFIG[billing_type].suffixes[SuffixOf(i)].qty)
                    /\ IF notna(data.qty)
                       THEN /\ Cell(i, "Reading From") = IntV(0)
                            /\ Cell(i, "Reading To") = data.qty
                            /\ counted[i] = 1
                            /\ <<i, "Reading From">> \in written
                            /\ <<i, "Reading To">> \in written
                       ELSE Untouched(i)

\* A row that held readings before the call is overwritten from the present
\* quantity of the last billing row (0 and 22); the other row is not counted.
C3_Witness ==
    /\ Succeeded
    /\ billing_type = "Quarterly Billing"
    /\ Len(in_target.rows) = 2
    /\ Hit(1) /\ "qty" \in DOMAIN HitData(1) /\ notna(HitData(1).qty)
    /\ Orig(1, "Reading From") = IntV(102)
    /\ Cell(1, "Reading From") = IntV(0)
    /\ Cell(1, "Reading To") = IntV(22)
    /\ ret.count = 1

\* The quantity column is missing from the billing table: the hit writes nothing.
C3_WitnessAbsentColumn ==
    /\ Succeeded
    /\ "DEMAND" \notin in_billing.columns
    /\ billing_type = "Load Smart Billing"
    /\ \E i \in 1..Len(in_target.rows) :
          /\ Hit(i) /\ SuffixOf(i) = "D"
          /\ Orig(i, "Reading To") = IntV(101 + 2 * i)
          /\ Cell(i, "Reading To") = IntV(101 + 2 * i)
    /\ ret.count = 0

\* C4: a processed row that hits a ReadingRange entry has Reading From written
\* (to start) iff start is present and Reading To written (to end) iff end is
\* present; a field whose bound is absent keeps the value it had before the
\* call; the row is counted once iff one of the two was written.
C4_ReadingRangeRows ==
    \A i \in Processed :
        (Hit(i) /\ "start" \in DOMAIN HitData(i)) =>
            LET data == HitData(i)
                s_val == data.start
                e_val == data.end
            IN  /\ (<<i, "Reading From">> \in written) = notna(s_val)
                /\ (<<i, "Reading To">> \in written) = notna(e_val)
                /\ Cell(i, "Reading From") =
                      IF notna(s_val) THEN s_val ELSE Orig(i, "Reading From")
                /\ Cell(i, "Reading To") =
                      IF notna(e_val) THEN e_val ELSE Orig(i, "Reading To")
                /\ counted[i] = IF notna(s_val) \/ notna(e_val) THEN 1 ELSE 0

\* A float-typed NMI 12.0 with start present (the reading 0) and end absent,
\* matched by 'Meter No.' 12P: Reading From is written, Reading To keeps its
\* earlier value, one match.
C4_Witness ==
    /\ Succeeded
    /\ billing_type = "Quarterly Billing"
    /\ Len(in_billing.rows) = 1
    /\ in_billing.rows[1]["NMI"] = FloatV(12)
    /\ Len(in_target.rows) = 1
    /\ in_target.rows[1]["Meter No."] = StrV(<<"1", "2", "P">>)
    /\ Hit(1)
    /\ HitData(1) = [start |-> IntV(0), end |-> NaV]
    /\ Cell(1, "Reading From") = IntV(0)
    /\ Orig(1, "Reading To") = IntV(103)
    /\ Cell(1, "Reading To") = IntV(103)
    /\ ret.count = 1

\* C5: a processed row whose normalized 'Meter No.' has fewer than 2
\* characters, or whose base is no key of the index, or whose suffix is not
\* among the suffix codes stored for the base, keeps both output fields (absent
\* when the call created the columns) and is not counted.
C5_UnmatchedRowsUntouched ==
    \A i \in Processed : ~Hit(i) => Untouched(i)

\* A suffix the format does not know under an indexed base, and a base that is
\* not indexed, in a table that held readings before the call.
C5_Witness ==
    /\ Succeeded
    /\ Len(in_target.rows) = 2
    /\ DOMAIN billing_lookup = {<<"1", "2">>}
    /\ MeterText(1) = <<"1", "2", "D">>
    /\ "D" \notin DOMAIN billing_lookup[<<"1", "2">>]
    /\ MeterText(2) = <<"3", "4", "P">>
    /\ Cell(1, "Reading From") = IntV(102)
    /\ Cell(2, "Reading To") = IntV(105)
    /\ ret.count = 0

\* C6: on a call that does not fail, the target table keeps its rows, in
\* order, and every cell outside 'Reading From' / 'Reading To' ('Meter No.'
\* included); the only columns added are the two output columns; the billing
\* table is not modified.
C6_FramePreserved ==
    ~ErrorInput =>
        /\ Len(df_target.rows) = Len(in_target.rows)
        /\ df_target.columns \in
              {in_target.columns, in_target.columns \cup {"Reading From", "Reading To"}}
        /\ (Succeeded =>
              df_target.columns = in_target.columns \cup {"Reading From", "Reading To"})
        /\ \A i \in 1..Len(in_target.rows) :
              /\ DOMAIN df_target.rows[i] = df_target.columns
              /\ \A c \in in_target.columns \ {"Reading From", "Reading To"} :
                    Cell(i, c) = in_target.rows[i][c]
        /\ df_billing = in_billing

\* Both rows of a two-row table were written, into columns the call created.
C6_Witness ==
    /\ Succeeded
    /\ Len(in_target.rows) = 2
    /\ "Reading From" \notin in_target.columns
    /\ RowWritten(1) /\ RowWritten(2)
    /\ Cell(1, "Description") = IntV(201)
    /\ Cell(2, "Description") = IntV(202)

\* C9: once the update loop runs, the index holds, for every identifier some
\* billing row normalizes to (the empty one apart), the per-suffix data of the
\* last such row and nothing of the earlier ones; the index is complete before
\* the first target row is touched; every processed target row is populated
\* from that last row.
C9_LastRowWins ==
    /\ (pc = "build" => ti = 0 /\ written = {} /\ df_target = in_target)
    /\ (pc = "update" \/ Succeeded) =>
          /\ bi = Len(in_billing.rows)
          /\ DOMAIN billing_lookup =
                {NmiText(j) : j \in 1..Len(in_billing.rows)} \ {<<>>}
          /\ \A k \in DOMAIN billing_lookup :
                LET last == LastRowFor(k)
                    suffixes == BILLING_CONFIG[billing_type].suffixes
                IN  /\ DOMAIN billing_lookup[k] = DOMAIN suffixes
                    /\ \A x \in DOMAIN suffixes :
                          billing_lookup[k][x] =
                              IF "start" \in DOMAIN suffixes[x]
                              THEN [start |-> Held(last, suffixes[x].start),
                                    end |-> Held(last, suffixes[x].end)]
                              ELSE [qty |-> Held(last, suffixes[x].qty)]
          /\ \A i \in Processed :
                LET m == MeterText(i)
                    base == SubSeq(m, 1, Len(m) - 1)
                    rows == RowsFor(base)
                IN
                (Len(m) >= 2 /\ rows # {}
                    /\ m[Len(m)] \in DOMAIN BILLING_CONFIG[billing_type].suffixes) =>
                    LET last == in_billing.rows[CHOOSE j \in rows : \A j2 \in rows : j2 <= j]
                        mapping == BILLING_CONFIG[billing_type].suffixes[m[Len(m)]]
                        from == IF "start" \in DOMAIN mapping
                                THEN Held(last, mapping.start)
                                ELSE IF notna(Held(last, mapping.qty)) THEN IntV(0) ELSE NaV
                        to == IF "start" \in DOMAIN mapping
                              THEN Held(last, mapping.end)
                              ELSE Held(last, mapping.qty)
                    IN  /\ Cell(i, "Reading From") =
                              IF notna(from) THEN from ELSE Orig(i, "Reading From")
                        /\ Cell(i, "Reading To") =
                              IF notna(to) THEN to ELSE Orig(i, "Reading To")

\* Two billing rows normalize to "12" (the text '12.0' followed by a line
\* feed, then the float 12.0); the first has
\* every reading, the second only its end.  'Meter No.' 12P gets the second
\* row's end and keeps its earlier Reading From; 12A is not written.
C9_Witness ==
    /\ Succeeded
    /\ billing_type = "Quarterly Billing"
    /\ Len(in_billing.rows) = 2
    /\ in_billing.rows[1]["NMI"] = StrV(<<"1", "2", ".", "0", "\n">>)
    /\ in_billing.rows[1]["PEAK_KWH"] = IntV(0)
    /\ in_billing.rows[1]["Availability charge Quantity"] = IntV(2)
    /\ in_billing.rows[2]["NMI"] = FloatV(12)
    /\ in_billing.rows[2]["PEAK_KWH"] = NaV
    /\ in_billing.rows[2]["PEAK_KWH.1"] = IntV(21)
    /\ in_billing.rows[2]["Availability charge Quantity"] = NaV
    /\ Len(in_target.rows) = 2
    /\ MeterText(1) = <<"1", "2", "P">>
    /\ MeterText(2) = <<"1", "2", "A">>
    /\ Cell(1, "Reading From") = IntV(102)
    /\ Cell(1, "Reading To") = IntV(21)
    /\ Cell(2, "Reading From") = IntV(104)
    /\ Cell(2, "Reading To") = IntV(105)
    /\ ret.count = 1

\* C10: no key of the index is empty, every key is the normalized identifier
\* of a billing row already consumed, and every value written to the target
\* is the constant 0 of a quantity hit or a reading of a billing row whose
\* normalized identifier is not empty.
C10_EmptyIdentifierNotIndexed ==
    Registered /\ ~ErrorInput =>
        /\ \A k \in DOMAIN billing_lookup :
              /\ k # <<>>
              /\ \E j \in 1..bi : NmiText(j) = k
        /\ \A w \in written :
              \/ /\ w[2] = "Reading From"
                 /\ Cell(w[1], w[2]) = IntV(0)
                 /\ Hit(w[1]) /\ "qty" \in DOMAIN HitData(w[1])
              \/ \E j \in 1..Len(in_billing.rows) :
                    /\ NmiText(j) # <<>>
                    /\ \E c \in in_billing.columns : in_billing.rows[j][c] = Cell(w[1], w[2])

\* A blank NMI cell in the first billing row, 12.0 in the second: only "12" is
\* indexed and 'Meter No.' 12P is populated from the second row.
C10_Witness ==
    /\ Succeeded
    /\ Len(in_billing.rows) = 2
    /\ in_billing.rows[1]["NMI"] = StrV(<<" ", "\t">>)
    /\ in_billing.rows[2]["NMI"] = FloatV(12)
    /\ DOMAIN billing_lookup = {<<"1", "2">>}
    /\ Len(in_target.rows) = 1
    /\ MeterText(1) = <<"1", "2", "P">>
    /\ billing_type = "Load Smart Billing"
    /\ Cell(1, "Reading From") = IntV(23)
    /\ Cell(1, "Reading To") = IntV(24)


-----------------------------------------------------------------------------
(* Properties of clean_nmi *)

\* The text between the first and the last character that is not whitespace.
Trimmed(s) ==
    LET solid == {i \in 1..Len(s) : s[i] \notin Whitespace}
    IN  IF solid = {} THEN <<>>
        ELSE SubSeq(s, CHOOSE i \in solid : \A j \in solid : i <= j,
                       CHOOSE i \in solid : \A j \in solid : j <= i)

TenDigits == <<"1", "2", "3", "4", "5", "6", "7", "8", "9", "0">>

\* C7: the normalizer is idempotent on text: clean_nmi(clean_nmi(x)) equals
\* clean_nmi(x) for every string x.
C7_Idempotent ==
    (cpc = "twice" /\ cval.t = "str") => cres2 = cres1

\* C8, as stated: clean_nmi is the normalization of spec 4.1, which removes a
\* trailing '.0' from the textual representation and only then trims.
C8_SuffixThenTrim ==
    cpc # "start" => cres1 = clean_nmi_suffix_first(cval)

\* C8, amended: absent input gives the empty text; otherwise the textual
\* representation is trimmed first and then loses one trailing '.0' if the
\* trimmed text ends with '.0'.  The float 1234567890.0 and the texts
\* '1234567890.0' and '1234567890' all give '1234567890', which is also the
\* base (all but the last character) of 'Meter No.' 1234567890P.
C8_TrimThenSuffix ==
    cpc # "start" =>
        /\ isna(cval) => cres1 = <<>>
        /\ notna(cval) =>
              LET t == Trimmed(PyStr(cval))
                  n == Len(t)
              IN  cres1 = IF n >= 2 /\ t[n - 1] = "." /\ t[n] = "0"
                          THEN SubSeq(t, 1, n - 2) ELSE t
        /\ cval \in {FloatV(1234567890), StrV(TenDigits \o <<".", "0">>), StrV(TenDigits)}
              => cres1 = TenDigits
        /\ cval = StrV(TenDigits \o <<"P">>)
              => /\ SubSeq(cres1, 1, Len(cres1) - 1) = TenDigits
                 /\ cres1[Len(cres1)] = "P"

\* '1.0 ' normalizes to '1': the trim exposes the '.0', which is then removed
\* (removing first and trimming after would leave '1.0').
C8_Witness ==
    /\ cpc = "once"
    /\ cval = StrV(<<"1", ".", "0", " ">>)
    /\ cres1 = <<"1">>

====
